---- MODULE Spec2Model ----
(***************************************************************************)
(* A model of the raw tree of the nondestructive YAML document model:      *)
(* src/yaml/raw.rs (Raw, RawTable::insert, RawList::push, Raw::display),   *)
(* src/yaml/table/iter.rs (Iter) and src/yaml/value.rs (Value accessors).  *)
(*                                                                         *)
(* A text is a sequence of characters, each a one-character string; the    *)
(* control characters are written as named tokens ("NUL", "BEL", ...).     *)
(* A StringId is an index into `strings`, the content of the interner.     *)
(***************************************************************************)
EXTENDS Integers, Sequences, FiniteSets, TLC

VARIABLES
    strings,    \* Strings: the interned fragments, indexed by StringId
    doc,        \* the Raw node being edited: a table or a list, with its layout
    last,       \* the last mutation: its arguments, its result, the node before it
    iter,       \* table::Iter: the remaining range of the underlying slice iterator
    yielded,    \* what the iterator calls returned so far, in call order
    node,       \* the node a Value view points to
    answer      \* what the last accessor call on the Value returned

vars == <<strings, doc, last, iter, yielded, node, answer>>

----------------------------------------------------------------------------
(* Bounds of the model. *)

MaxItems == 3       \* entries a table grows to
MaxPush == 1        \* items pushed on a list beyond the three of `[1, 2, 3]`
MaxFresh == 3       \* handles the interner allocates beyond the initial ones
MaxSkip == 1        \* largest argument of nth / nth_back
MaxCalls == 4       \* calls made on one iterator
MaxLen == 2         \* characters of a logical string that is quoted

----------------------------------------------------------------------------
(* Option<StringId>: None, or a StringId (1 ..). *)

None == 0

(* Option of anything else: absent, or present with a value. *)
Absent == [some |-> FALSE]

Some(value) == [some |-> TRUE, value |-> value]

Last(seq) == seq[Len(seq)]

Min(S) == CHOOSE x \in S : \A y \in S : x <= y

----------------------------------------------------------------------------
(* Strings, the interner.  insert stores the bytes and returns a handle;   *)
(* whether identical bytes share a handle is left open, so insert is a     *)
(* choice between the first handle that already holds the bytes and a      *)
(* fresh one.  `base` is the number of handles the document started with.  *)

StringsGet(s, id) == s.data[id]

StringsInsert(s, bytes) ==
    LET same == {j \in 1..Len(s.data) : s.data[j] = bytes} IN
    (IF same # {} THEN {[strings |-> s, id |-> Min(same)]} ELSE {})
    \cup
    (IF Len(s.data) < s.base + MaxFresh
        THEN {[strings |-> [s EXCEPT !.data = Append(@, bytes)], id |-> Len(s.data) + 1]}
        ELSE {})

----------------------------------------------------------------------------
(* Constructors of raw.rs. *)

RawNew(kind, indent) == [kind |-> kind, layout |-> [indent |-> indent]]

RawStringNew(kind, string) == [kind |-> kind, string |-> string]

RawNumberNew(string) == [tag |-> "Number", string |-> string]

RawKindString(raw) == [tag |-> "String", kind |-> raw.kind, string |-> raw.string]

RawKindNull(kind) == [tag |-> "Null", kind |-> kind]

----------------------------------------------------------------------------
(* Raw::display and the two escape functions. *)

AsciiControl == {"NUL", "SOH", "BEL", "BS", "\t", "\n", "VT", "\f", "\r", "ESC", "US", "DEL"}

CharCode(c) ==
    CASE c = "NUL" -> 0   [] c = "SOH" -> 1   [] c = "BEL" -> 7   [] c = "BS" -> 8
      [] c = "\t" -> 9    [] c = "\n" -> 10   [] c = "VT" -> 11   [] c = "\f" -> 12
      [] c = "\r" -> 13   [] c = "ESC" -> 27  [] c = "US" -> 31   [] c = "DEL" -> 127

HexDigit(n) ==
    <<"0", "1", "2", "3", "4", "5", "6", "7", "8", "9", "a", "b", "c", "d", "e", "f">>[n + 1]

EscapeSingleChar(c) == IF c = "'" THEN <<"'", "'">> ELSE <<c>>

EscapeDoubleChar(c) ==
    CASE c = "NUL" -> <<"\\", "0">>
      [] c = "BEL" -> <<"\\", "a">>
      [] c = "BS" -> <<"\\", "b">>
      [] c = "\t" -> <<"\\", "t">>
      [] c = "\n" -> <<"\\", "n">>
      [] c = "VT" -> <<"\\", "v">>
      [] c = "\f" -> <<"\\", "f">>
      [] c = "\r" -> <<"\\", "r">>
      [] c = "ESC" -> <<"\\", "e">>
      [] c = "\"" -> <<"\\", "\"">>
      [] OTHER -> IF c \in AsciiControl
                    THEN <<"\\", "x", HexDigit(CharCode(c) \div 16), HexDigit(CharCode(c) % 16)>>
                    ELSE <<c>>

RECURSIVE EscapeChars(_, _, _)
EscapeChars(string, i, single) ==
    IF i > Len(string) THEN <<>>
    ELSE (IF single THEN EscapeSingleChar(string[i]) ELSE EscapeDoubleChar(string[i]))
         \o EscapeChars(string, i + 1, single)

escape_single_quoted(string) == <<"'">> \o EscapeChars(string, 1, TRUE) \o <<"'">>

escape_double_quoted(string) == <<"\"">> \o EscapeChars(string, 1, FALSE) \o <<"\"">>

DisplayNull(kind) ==
    CASE kind = "Keyword" -> <<"n", "u", "l", "l">>
      [] kind = "Tilde" -> <<"~">>
      [] kind = "Empty" -> <<>>

DisplayString(s, raw) ==
    CASE raw.kind = "Bare" -> StringsGet(s, raw.string)
      [] raw.kind = "DoubleQuoted" -> escape_double_quoted(StringsGet(s, raw.string))
      [] raw.kind = "SingleQuoted" -> escape_single_quoted(StringsGet(s, raw.string))

RECURSIVE Display(_, _)
RECURSIVE DisplayTableItems(_, _, _)
RECURSIVE DisplayListItems(_, _, _)

DisplayTableItems(s, table, i) ==
    IF i > Len(table.items) THEN <<>>
    ELSE LET item == table.items[i] IN
         (IF item.prefix # None THEN StringsGet(s, item.prefix) ELSE <<>>)
         \o StringsGet(s, item.key.string)
         \o <<":">>
         \o StringsGet(s, item.separator)
         \o Display(s, item.value)
         \o (IF i < Len(table.items) /\ table.kind.tag = "Inline" THEN <<",">> ELSE <<>>)
         \o DisplayTableItems(s, table, i + 1)

DisplayTable(s, table) ==
    (IF table.kind.tag = "Inline" THEN <<"{">> ELSE <<>>)
    \o DisplayTableItems(s, table, 1)
    \o (IF table.kind.tag = "Inline"
          THEN (IF table.kind.trailing THEN <<",">> ELSE <<>>)
               \o StringsGet(s, table.kind.suffix) \o <<"}">>
          ELSE <<>>)

DisplayListItems(s, list, i) ==
    IF i > Len(list.items) THEN <<>>
    ELSE LET item == list.items[i] IN
         (IF item.prefix # None THEN StringsGet(s, item.prefix) ELSE <<>>)
         \o (IF list.kind.tag = "Table" THEN <<"-">> ELSE <<>>)
         \o StringsGet(s, item.separator)
         \o Display(s, item.value)
         \o (IF i < Len(list.items) /\ list.kind.tag = "Inline" THEN <<",">> ELSE <<>>)
         \o DisplayListItems(s, list, i + 1)

DisplayList(s, list) ==
    (IF list.kind.tag = "Inline" THEN <<"[">> ELSE <<>>)
    \o DisplayListItems(s, list, 1)
    \o (IF list.kind.tag = "Inline"
          THEN (IF list.kind.trailing THEN <<",">> ELSE <<>>)
               \o StringsGet(s, list.kind.suffix) \o <<"]">>
          ELSE <<>>)

Display(s, raw) ==
    CASE raw.kind.tag = "Null" -> DisplayNull(raw.kind.kind)
      [] raw.kind.tag = "Number" -> StringsGet(s, raw.kind.string)
      [] raw.kind.tag = "String" -> DisplayString(s, raw.kind)
      [] raw.kind.tag = "Table" -> DisplayTable(s, raw.kind)
      [] raw.kind.tag = "List" -> DisplayList(s, raw.kind)

----------------------------------------------------------------------------
(* RawList::push. *)

ListSeparator(items, s, separator) ==
    IF separator.tag = "Auto"
      THEN IF items # <<>>
             THEN {[strings |-> s, id |-> Last(items).separator]}
             ELSE StringsInsert(s, <<" ">>)
      ELSE StringsInsert(s, separator.text)

RawListPushDropsTrailing(list, s, layout, separator, value) ==
    {[strings |-> o.strings,
      list |-> [list EXCEPT
                  !.kind = IF @.tag = "Inline" THEN [@ EXCEPT !.trailing = FALSE] ELSE @,
                  !.items = Append(@,
                  [prefix |-> IF list.items # <<>> THEN layout.indent ELSE None,
                   separator |-> o.id,
                   value |-> RawNew(value, layout.indent)])]] :
        o \in ListSeparator(list.items, s, separator)}

ListPrefix(items, layout) == IF items # <<>> THEN layout.indent ELSE None

RawListPush(list, s, layout, separator, value) ==
    {[strings |-> o.strings,
      list |-> [list EXCEPT !.items = Append(@,
                  [prefix |-> ListPrefix(list.items, layout),
                   separator |-> o.id,
                   value |-> RawNew(value, layout.indent)])]] :
        o \in ListSeparator(list.items, s, separator)}

----------------------------------------------------------------------------
(* RawTable::insert.  The result index is 0-based, as in the code. *)

Position(items, key) ==
    LET found == {i \in 1..Len(items) : items[i].key.string = key}
    IN  IF found = {} THEN None ELSE Min(found)

TableReplace(items, index, separator, value) ==
    [items EXCEPT ![index].value.kind = value]

TableSeparatorOfFirst(items, s, separator) ==
    IF separator.tag = "Auto"
      THEN IF items # <<>>
             THEN {[strings |-> s, id |-> items[1].separator]}
             ELSE StringsInsert(s, <<" ">>)
      ELSE StringsInsert(s, separator.text)

TableSeparator(items, s, separator) ==
    IF separator.tag = "Auto"
      THEN IF items # <<>>
             THEN {[strings |-> s, id |-> Last(items).separator]}
             ELSE StringsInsert(s, <<" ">>)
      ELSE StringsInsert(s, separator.text)

TablePrefixAlways(items, layout) == layout.indent

TablePrefix(items, layout) == IF items # <<>> THEN layout.indent ELSE None

TableAppendReturnsNewLen(table, o, layout, key, value) ==
    [strings |-> o.strings,
     ret |-> Len(table.items) + 1,
     table |-> [table EXCEPT !.items = Append(@,
                 [prefix |-> IF table.items # <<>> THEN layout.indent ELSE None,
                  key |-> RawStringNew("Bare", key),
                  separator |-> o.id,
                  value |-> RawNew(value, layout.indent)])]]

TableAppend(table, o, layout, key, value) ==
    [strings |-> o.strings,
     ret |-> Len(table.items),
     table |-> [table EXCEPT !.items = Append(@,
                 [prefix |-> TablePrefix(table.items, layout),
                  key |-> RawStringNew("Bare", key),
                  separator |-> o.id,
                  value |-> RawNew(value, layout.indent)])]]

RawTableInsert(table, s, layout, key, separator, value) ==
    UNION {
        LET index == Position(table.items, k.id) IN
        IF index # None
          THEN {[strings |-> k.strings,
                 ret |-> index - 1,
                 table |-> [table EXCEPT
                              !.items = TableReplace(@, index, separator, value)]]}
          ELSE {TableAppend(table, o, layout, k.id, value) :
                    o \in TableSeparator(table.items, k.strings, separator)}
        : k \in StringsInsert(s, key)}

----------------------------------------------------------------------------
(* The inputs of the mutation protocol. *)

Keys == {<<"a">>, <<"b">>, <<"c">>}

Auto == [tag |-> "Auto", text |-> <<>>]

Custom(text) == [tag |-> "Custom", text |-> text]

Separators == {Auto, Custom(<<>>), Custom(<<"\t">>)}

Indents == {<<>>, <<"\n", " ", " ">>}

Values == {[tag |-> "Null", kind |-> "Tilde"],
           [tag |-> "Number", text |-> <<"4">>]}

(* The caller builds the RawKind it hands over, interning its text first. *)
MakeValue(s, v) ==
    CASE v.tag = "Null" -> {[strings |-> s, kind |-> RawKindNull(v.kind)]}
      [] v.tag = "Number" ->
            {[strings |-> o.strings, kind |-> RawNumberNew(o.id)] :
                o \in StringsInsert(s, v.text)}

(* The documents the run starts from: an empty table or list of either     *)
(* container kind, and the compact list `[1, 2, 3]` as a scanner leaves    *)
(* it, the space before an item held by its separator.                     *)

Inline(trailing, suffix) == [tag |-> "Inline", trailing |-> trailing, suffix |-> suffix]

Expanded == [tag |-> "Table"]

ContainerKinds(suffix) == {Expanded} \cup {Inline(t, suffix) : t \in BOOLEAN}

InitialStrings(indent) ==
    [data |-> <<indent, <<>>, <<" ">>, <<"1">>, <<"2">>, <<"3">>>>, base |-> 6]

EmptyDocs ==
    {RawNew([tag |-> tag, kind |-> kind, items |-> <<>>], 1) :
        tag \in {"Table", "List"}, kind \in ContainerKinds(2)}

ScannedItem(prefix, separator, number) ==
    [prefix |-> prefix, separator |-> separator,
     value |-> RawNew(RawNumberNew(number), 1)]

ScannedList(trailing) ==
    RawNew([tag |-> "List", kind |-> Inline(trailing, 2),
            items |-> <<ScannedItem(None, 2, 4),
                        ScannedItem(2, 3, 5),
                        ScannedItem(2, 3, 6)>>],
           1)

ScannedDocs == {ScannedList(t) : t \in BOOLEAN}

(* The table `a:` holding the nested table `b: 1`, as a scanner leaves it: *)
(* the nested table, the value of the entry a, carries its own, deeper     *)
(* indentation.  Its three strings count among the handles the interner   *)
(* allocates.                                                              *)
Deeper(indent) == indent \o <<" ", " ">>

NestedStrings(indent) ==
    [data |-> InitialStrings(indent).data \o <<<<"a">>, <<"b">>, Deeper(indent)>>,
     base |-> InitialStrings(indent).base]

NestedTable ==
    RawNew([tag |-> "Table", kind |-> Expanded,
            items |-> <<[prefix |-> None, key |-> RawStringNew("Bare", 7), separator |-> 2,
                         value |-> RawNew([tag |-> "Table", kind |-> Expanded,
                                           items |-> <<[prefix |-> 9,
                                                        key |-> RawStringNew("Bare", 8),
                                                        separator |-> 3,
                                                        value |-> RawNew(RawNumberNew(4), 9)]>>],
                                          9)]>>],
           1)

NoOp == [op |-> "none", key |-> <<>>, separator |-> Auto, value |-> RawKindNull("Empty"),
         ret |-> 0, pre |-> RawNew(RawKindNull("Empty"), 1)]

NoIter == [front |-> 0, back |-> 0]

NoAnswer == [call |-> "none", result |-> Absent]

InitMutation ==
    /\ \E indent \in Indents :
          \/ strings = InitialStrings(indent) /\ doc \in EmptyDocs \cup ScannedDocs
          \/ strings = NestedStrings(indent) /\ doc = NestedTable
    /\ last = NoOp
    /\ iter = NoIter
    /\ yielded = <<>>
    /\ node = RawKindNull("Empty")
    /\ answer = NoAnswer

----------------------------------------------------------------------------
(* The mutations.  The caller hands the container its own layout. *)

TableInsert ==
    /\ doc.kind.tag = "Table"
    /\ \E key \in Keys, separator \in Separators, v \in Values :
         \E mv \in MakeValue(strings, v) :
           \E o \in RawTableInsert(doc.kind, mv.strings, doc.layout, key, separator, mv.kind) :
             /\ Len(o.table.items) <= MaxItems
             /\ doc' = [doc EXCEPT !.kind = o.table]
             /\ strings' = o.strings
             /\ last' = [op |-> "insert", key |-> key, separator |-> separator,
                         value |-> mv.kind, ret |-> o.ret, pre |-> doc]
    /\ UNCHANGED <<iter, yielded, node, answer>>

ListPush ==
    /\ doc.kind.tag = "List"
    /\ \E separator \in Separators, v \in Values :
         \E mv \in MakeValue(strings, v) :
           \E o \in RawListPush(doc.kind, mv.strings, doc.layout, separator, mv.kind) :
             /\ Len(o.list.items) <= Len(ScannedList(FALSE).kind.items) + MaxPush
             /\ doc' = [doc EXCEPT !.kind = o.list]
             /\ strings' = o.strings
             /\ last' = [op |-> "push", key |-> <<>>, separator |-> separator,
                         value |-> mv.kind, ret |-> 0, pre |-> doc]
    /\ UNCHANGED <<iter, yielded, node, answer>>

Next == TableInsert \/ ListPush

Spec == InitMutation /\ [][Next]_vars

----------------------------------------------------------------------------
(* table::Iter.  The underlying slice iterator holds the entries from      *)
(* index front + 1 to index back; an item is the index of the entry        *)
(* returned, or None.                                                      *)

SliceLen(it) == it.back - it.front

SliceNext(it) ==
    IF SliceLen(it) > 0
      THEN [iter |-> [it EXCEPT !.front = @ + 1], item |-> it.front + 1]
      ELSE [iter |-> it, item |-> None]

SliceNextBack(it) ==
    IF SliceLen(it) > 0
      THEN [iter |-> [it EXCEPT !.back = @ - 1], item |-> it.back]
      ELSE [iter |-> it, item |-> None]

SliceNth(it, n) ==
    IF n >= SliceLen(it)
      THEN [iter |-> [it EXCEPT !.front = it.back], item |-> None]
      ELSE [iter |-> [it EXCEPT !.front = @ + n + 1], item |-> it.front + n + 1]

(* What the iterator hands out for an entry: its key text and its value. *)
IterItem(s, items, item) ==
    IF item = None THEN Absent
    ELSE Some([key |-> StringsGet(s, items[item].key.string), value |-> items[item].value])

IterNew(items) == [front |-> 0, back |-> Len(items)]

IterNextFromFront(it) == SliceNext(it)

IterNext(it) == SliceNext(it)

IterNth(it, n) == SliceNth(it, n)

IterSizeHint(it) == SliceLen(it)

IterNextBack(it) == SliceNextBack(it)

IterNthBack(it, n) == SliceNth(it, n)

(* The tables iterated over: the first n of the entries a: 1, b: 2, c: 3, ... *)
IterStrings ==
    [data |-> <<<<"\n">>, <<" ">>,
                <<"a">>, <<"b">>, <<"c">>, <<"d">>, <<"e">>,
                <<"1">>, <<"2">>, <<"3">>, <<"4">>, <<"5">>>>,
     base |-> 12]

IterTable(n) ==
    RawNew([tag |-> "Table", kind |-> Expanded,
            items |-> [i \in 1..n |->
                         [prefix |-> IF i = 1 THEN None ELSE 1,
                          key |-> RawStringNew("Bare", 2 + i),
                          separator |-> 2,
                          value |-> RawNew(RawNumberNew(7 + i), 1)]]],
           1)

InitIter ==
    /\ strings = IterStrings
    /\ \E n \in 0..MaxItems : doc = IterTable(n)
    /\ iter = IterNew(doc.kind.items)
    /\ yielded = <<>>
    /\ last = NoOp
    /\ node = RawKindNull("Empty")
    /\ answer = NoAnswer

Called(call, n, r) ==
    /\ iter' = r.iter
    /\ yielded' = Append(yielded, [call |-> call, item |-> r.item,
                                    entry |-> IterItem(strings, doc.kind.items, r.item)])
    /\ last' = [op |-> call, n |-> n, before |-> iter, item |-> r.item]
    /\ UNCHANGED <<strings, doc, node, answer>>

CallNext ==
    /\ Len(yielded) < MaxCalls
    /\ Called("next", 0, IterNext(iter))

CallNextBack ==
    /\ Len(yielded) < MaxCalls
    /\ Called("next_back", 0, IterNextBack(iter))

CallNth ==
    /\ Len(yielded) < MaxCalls
    /\ \E n \in 0..MaxSkip : Called("nth", n, IterNth(iter, n))

CallNthBack ==
    /\ Len(yielded) < MaxCalls
    /\ \E n \in 0..MaxSkip : Called("nth_back", n, IterNthBack(iter, n))

NextIter == CallNext \/ CallNextBack \/ CallNth \/ CallNthBack

SpecIter == InitIter /\ [][NextIter]_vars

----------------------------------------------------------------------------
(* Value and its accessors (value.rs).  The node a Value points to is one  *)
(* of Null, Boolean, Number, String, Mapping, Sequence; a text may hold    *)
(* the byte "xFF", which no UTF-8 text holds.                              *)

Digits == {"0", "1", "2", "3", "4", "5", "6", "7", "8", "9"}

DigitValue(c) ==
    CASE c = "0" -> 0 [] c = "1" -> 1 [] c = "2" -> 2 [] c = "3" -> 3 [] c = "4" -> 4
      [] c = "5" -> 5 [] c = "6" -> 6 [] c = "7" -> 7 [] c = "8" -> 8 [] c = "9" -> 9

RECURSIVE DigitsValue(_)
DigitsValue(digits) ==
    IF digits = <<>> THEN 0
    ELSE DigitsValue(SubSeq(digits, 1, Len(digits) - 1)) * 10 + DigitValue(Last(digits))

AllDigits(text) == \A i \in 1..Len(text) : text[i] \in Digits

(* An integer parse that keeps the low byte of a value out of range. *)
ParseIntegerWrapping(text, lo, hi) ==
    LET negative == text # <<>> /\ text[1] = "-"
        digits == IF negative THEN Tail(text) ELSE text
        value == IF negative THEN 0 - DigitsValue(digits) ELSE DigitsValue(digits)
    IN  IF digits = <<>> \/ ~AllDigits(digits) THEN Absent
        ELSE Some(lo + ((value - lo) % (hi - lo + 1)))

(* lexical_core::parse for an integer type of range lo .. hi: the whole    *)
(* text is an optional '-' (signed types only) and digits, in range.       *)
ParseInteger(text, lo, hi) ==
    LET negative == text # <<>> /\ text[1] = "-"
        digits == IF negative THEN Tail(text) ELSE text
        value == IF negative THEN 0 - DigitsValue(digits) ELSE DigitsValue(digits)
    IN  IF digits = <<>> \/ ~AllDigits(digits) \/ (negative /\ lo = 0) THEN Absent
        ELSE IF value < lo \/ value > hi THEN Absent
        ELSE Some(value)

(* lexical_core::parse for a float: an optional '-', digits, an optional   *)
(* '.' and digits, at least one digit; the value is kept as the sign, the  *)
(* digits without the point and the number of digits after it.            *)
ParseFloat(text) ==
    LET negative == text # <<>> /\ text[1] = "-"
        body == IF negative THEN Tail(text) ELSE text
        points == {i \in 1..Len(body) : body[i] = "."}
        point == IF points = {} THEN Len(body) + 1 ELSE Min(points)
        whole == SubSeq(body, 1, point - 1)
        fraction == SubSeq(body, point + 1, Len(body))
    IN  IF Cardinality(points) > 1 \/ whole \o fraction = <<>>
           \/ ~AllDigits(whole \o fraction) THEN Absent
        ELSE Some([negative |-> negative,
                   digits |-> DigitsValue(whole \o fraction),
                   scale |-> Len(fraction)])

Utf8(bytes) == IF \E i \in 1..Len(bytes) : bytes[i] = "xFF" THEN Absent ELSE Some(bytes)

into_any_no_sequence(n) ==
    CASE n.tag = "Mapping" -> "Mapping"
      [] OTHER -> "Scalar"

into_any(n) ==
    CASE n.tag = "Mapping" -> "Mapping"
      [] n.tag = "Sequence" -> "Sequence"
      [] OTHER -> "Scalar"

as_bstr(n) == IF n.tag = "String" THEN Some(n.string) ELSE Absent

as_str(n) == IF n.tag = "String" THEN Utf8(n.string) ELSE Absent

as_bool(n) == IF n.tag = "Boolean" THEN Some(n.value) ELSE Absent

as_mapping(n) == IF n.tag = "Mapping" THEN Some(n) ELSE Absent

as_sequence(n) == IF n.tag = "Sequence" THEN Some(n) ELSE Absent

as_u8(n) == IF n.tag = "Number" THEN ParseInteger(n.string, 0, 255) ELSE Absent

as_i8(n) == IF n.tag = "Number" THEN ParseInteger(n.string, -128, 127) ELSE Absent

as_u16(n) == IF n.tag = "Number" THEN ParseInteger(n.string, 0, 65535) ELSE Absent

as_f64(n) == IF n.tag = "Number" THEN ParseFloat(n.string) ELSE Absent

NumberTexts ==
    {<<"0">>, <<"4", "2">>, <<"-", "1">>, <<"1", "2", "8">>, <<"2", "5", "6">>,
     <<"-", "1", "2", "9">>, <<"7", "0", "0", "0", "0">>, <<"1", ".", "5">>,
     <<"2", "5", "5">>, <<"-", "1", "2", "8">>, <<"0", "0", "7">>}

StringTexts == {<<>>, <<"a">>, <<"t", "r", "u", "e">>, <<"4", "2">>, <<"xFF">>, <<"a", "xFF">>}

Nodes ==
    {[tag |-> "Null", kind |-> k] : k \in {"Keyword", "Tilde", "Empty"}}
    \cup {[tag |-> "Boolean", value |-> b] : b \in BOOLEAN}
    \cup {[tag |-> "Number", string |-> t] : t \in NumberTexts}
    \cup {[tag |-> "String", string |-> t] : t \in StringTexts}
    \cup {[tag |-> "Mapping", items |-> n] : n \in 0..MaxItems}
    \cup {[tag |-> "Sequence", items |-> n] : n \in 0..MaxItems}

InitValue ==
    /\ node \in Nodes
    /\ answer = NoAnswer
    /\ strings = IterStrings
    /\ doc = IterTable(0)
    /\ last = NoOp
    /\ iter = NoIter
    /\ yielded = <<>>

Answered(call, result) ==
    /\ answer' = [call |-> call, result |-> result]
    /\ UNCHANGED <<strings, doc, last, iter, yielded, node>>

CallIntoAny == TRUE /\ Answered("into_any", into_any(node))

CallAsBstr == TRUE /\ Answered("as_bstr", as_bstr(node))

CallAsStr == TRUE /\ Answered("as_str", as_str(node))

CallAsBool == TRUE /\ Answered("as_bool", as_bool(node))

CallAsMapping == TRUE /\ Answered("as_mapping", as_mapping(node))

CallAsSequence == TRUE /\ Answered("as_sequence", as_sequence(node))

CallAsU8 == TRUE /\ Answered("as_u8", as_u8(node))

CallAsI8 == TRUE /\ Answered("as_i8", as_i8(node))

CallAsU16 == TRUE /\ Answered("as_u16", as_u16(node))

CallAsF64 == TRUE /\ Answered("as_f64", as_f64(node))

NextValue ==
    \/ CallIntoAny \/ CallAsBstr \/ CallAsStr \/ CallAsBool \/ CallAsMapping
    \/ CallAsSequence \/ CallAsU8 \/ CallAsI8 \/ CallAsU16 \/ CallAsF64

SpecValue == InitValue /\ [][NextValue]_vars

----------------------------------------------------------------------------
(* Reading the state. *)

IsInsert == last.op = "insert"

IsPush == last.op = "push"

Pre == last.pre.kind.items

Post == doc.kind.items

KeyText(item) == StringsGet(strings, item.key.string)

KeyIndexes(items, key) == {i \in 1..Len(items) : KeyText(items[i]) = key}

(* Table::get, the read by key: the value of the first entry whose key has *)
(* the given bytes.                                                        *)
TableGet(s, table, key) ==
    LET found == {i \in 1..Len(table.items) : StringsGet(s, table.items[i].key.string) = key}
    IN  IF found = {} THEN Absent ELSE Some(table.items[Min(found)].value)

(* The separator text the policy stands for, given the entries before the call. *)
PolicyText(separator, items) ==
    IF separator.tag = "Custom" THEN separator.text
    ELSE IF items # <<>> THEN StringsGet(strings, Last(items).separator)
    ELSE <<" ">>

PrefixText(item) == IF item.prefix # None THEN StringsGet(strings, item.prefix) ELSE <<>>

Count(text, c) == Cardinality({i \in 1..Len(text) : text[i] = c})

----------------------------------------------------------------------------
(* C1: a table insert whose key the table already holds overwrites, in     *)
(* place, the value and the separator of that entry: the value is the      *)
(* supplied one and the separator is the one the policy stands for.        *)
(* Stated for the calls in which the table found the key.                  *)
C1_ReplaceOverwritesValueAndSeparator ==
    (IsInsert /\ KeyIndexes(Pre, last.key) # {} /\ Len(Post) = Len(Pre)) =>
        LET i == last.ret + 1 IN
        /\ Post[i].value.kind = last.value
        /\ StringsGet(strings, Post[i].separator) = PolicyText(last.separator, Pre)

(* C2: an insert of a key already present at index i (the first and the    *)
(* second insert of the claim alike) leaves the entry count and every      *)
(* other entry unchanged, keeps entry i's prefix and key, returns i, and a *)
(* read of the key then returns the inserted value.                        *)
C2_IdempotentReplace ==
    (IsInsert /\ KeyIndexes(Pre, last.key) # {}) =>
        LET i == Min(KeyIndexes(Pre, last.key)) IN
        /\ Len(Post) = Len(Pre)
        /\ last.ret = i - 1
        /\ \A j \in 1..Len(Pre) : j # i => Post[j] = Pre[j]
        /\ Post[i].prefix = Pre[i].prefix
        /\ Post[i].key = Pre[i].key
        /\ LET read == TableGet(strings, doc.kind, last.key) IN
              read.some /\ read.value.kind = last.value

(* C3: no two entries of a table have keys with equal bytes, whichever     *)
(* handles the interner returned.                                          *)
C3_KeysUnique ==
    doc.kind.tag = "Table" =>
        \A i, j \in 1..Len(Post) : KeyText(Post[i]) = KeyText(Post[j]) => i = j

(* C4: an insert of a key not present in a table of n entries appends one  *)
(* entry at index n, returns n and leaves the first n entries unchanged;   *)
(* an expanded table then renders as before, followed by the new entry's   *)
(* prefix, the key, ':', the new entry's separator and the value's text.   *)
C4_AppendPreservesPrior ==
    (IsInsert /\ KeyIndexes(Pre, last.key) = {}) =>
        LET n == Len(Pre) IN
        /\ Len(Post) = n + 1
        /\ last.ret = n
        /\ SubSeq(Post, 1, n) = Pre
        /\ doc.kind.kind.tag = "Table" =>
             Display(strings, doc) =
                Display(strings, last.pre)
                \o PrefixText(Post[n + 1]) \o last.key \o <<":">>
                \o StringsGet(strings, Post[n + 1].separator)
                \o Display(strings, RawNew(last.value, doc.layout.indent))

C4_Witness ==
    /\ IsInsert /\ KeyIndexes(Pre, last.key) = {}
    /\ Len(Pre) = 2
    /\ doc.kind.kind.tag = "Table"
    /\ Len(StringsGet(strings, doc.layout.indent)) > 0
    /\ last.ret = 2

(* C5: the entry added by a list push or by a table insert of a new key    *)
(* has the separator the policy stands for: Custom(s) gives s, Auto gives  *)
(* the separator of the last entry before the call, or one space if there  *)
(* was none.                                                               *)
C5_SeparatorRule ==
    (IsPush \/ (IsInsert /\ KeyIndexes(Pre, last.key) = {})) =>
        /\ Len(Post) = Len(Pre) + 1
        /\ StringsGet(strings, Last(Post).separator) = PolicyText(last.separator, Pre)

(* An Auto insert of a new key into a table whose first and last           *)
(* separators differ.                                                      *)
C5_Witness ==
    /\ IsInsert /\ KeyIndexes(Pre, last.key) = {}
    /\ last.separator = Auto
    /\ Len(Pre) = 2
    /\ StringsGet(strings, Pre[1].separator) # StringsGet(strings, Pre[2].separator)

(* C6: the entry added by a list push or by a table insert of a new key    *)
(* has no line-prefix exactly when the container was empty, and otherwise  *)
(* the container's indentation handle; so entry 0 of a container has no    *)
(* prefix and every later entry has one.                                   *)
C6_PrefixRule ==
    /\ (IsPush \/ (IsInsert /\ KeyIndexes(Pre, last.key) = {})) =>
          /\ Last(Post).prefix = None <=> Pre = <<>>
          /\ Pre # <<>> => Last(Post).prefix = last.pre.layout.indent
    /\ \A i \in 1..Len(Post) : Post[i].prefix = None <=> i = 1

C6_Witness ==
    /\ IsPush
    /\ Len(Pre) = 1
    /\ Post[1].prefix = None
    /\ Post[2].prefix = doc.layout.indent

(* C7, as claimed: push and insert keep the container kind, the trailing   *)
(* comma flag and the suffix; a compact list rendering `[1, 2, 3]` renders *)
(* `[1, 2, 3, 4]` after an Auto push of 4 (trailing comma kept), whatever  *)
(* indentation the list records; an expanded list renders one '-' per item *)
(* and no bracket or comma.                                                *)
OneTwoThree == <<"[", "1", ",", " ", "2", ",", " ", "3">>

Closing(kind) == (IF kind.trailing THEN <<",">> ELSE <<>>) \o <<"]">>

PushedFourOnOneTwoThree ==
    /\ IsPush
    /\ last.pre.kind.kind.tag = "Inline"
    /\ Display(strings, last.pre) = OneTwoThree \o Closing(last.pre.kind.kind)
    /\ last.separator = Auto
    /\ last.value.tag = "Number"
    /\ StringsGet(strings, last.value.string) = <<"4">>

KindKept == (IsPush \/ IsInsert) => doc.kind.kind = last.pre.kind.kind

ExpandedListText ==
    (doc.kind.tag = "List" /\ doc.kind.kind.tag = "Table") =>
        LET text == Display(strings, doc) IN
        /\ Count(text, "-") = Len(Post)
        /\ Count(text, "[") = 0 /\ Count(text, "]") = 0 /\ Count(text, ",") = 0

C7_CompactPushAnyIndent ==
    /\ KindKept
    /\ PushedFourOnOneTwoThree =>
          Display(strings, doc) =
             OneTwoThree \o <<",", " ", "4">> \o Closing(doc.kind.kind)
    /\ ExpandedListText

(* C7, amended: as above, but the pushed item renders after the comma as   *)
(* the list's indentation text, the last item's separator and `4`; the     *)
(* text is `[1, 2, 3, 4]` when those two together are one space.           *)
C7_CompactPush ==
    /\ KindKept
    /\ PushedFourOnOneTwoThree =>
          /\ Display(strings, doc) =
                OneTwoThree \o <<",">>
                \o StringsGet(strings, last.pre.layout.indent)
                \o StringsGet(strings, Last(Pre).separator)
                \o <<"4">> \o Closing(doc.kind.kind)
          /\ (StringsGet(strings, last.pre.layout.indent)
                \o StringsGet(strings, Last(Pre).separator) = <<" ">>) =>
                Display(strings, doc) =
                   OneTwoThree \o <<",", " ", "4">> \o Closing(doc.kind.kind)
    /\ ExpandedListText

C7_Witness ==
    /\ PushedFourOnOneTwoThree
    /\ doc.kind.kind.trailing
    /\ Display(strings, doc) = OneTwoThree \o <<",", " ", "4", ",", "]">>

----------------------------------------------------------------------------
(* Reading the iterator's history. *)

Items == doc.kind.items

OnlySingleSteps == \A i \in 1..Len(yielded) : yielded[i].call \in {"next", "next_back"}

Calls(call) == {i \in 1..Len(yielded) : yielded[i].call = call}

Elements(call) == {i \in Calls(call) : yielded[i].item # None}

(* n calls of a single step, one after the other: the iterator left and    *)
(* the item the last call returned.                                        *)
RECURSIVE NextTimes(_, _)
NextTimes(it, n) ==
    IF n = 1 THEN IterNext(it) ELSE NextTimes(IterNext(it).iter, n - 1)

RECURSIVE NextBackTimes(_, _)
NextBackTimes(it, n) ==
    IF n = 1 THEN IterNextBack(it) ELSE NextBackTimes(IterNextBack(it).iter, n - 1)

(* C8: under any interleaving of next and next_back, next returns the      *)
(* entries in storage order from the front and next_back in reverse order  *)
(* from the back, no entry twice; the reported size is the entry count     *)
(* less the elements returned; a call returns none exactly when the size   *)
(* was 0, and then every entry has been returned.                          *)
C8_IteratorOrderAndSize ==
    OnlySingleSteps =>
        /\ IterSizeHint(iter) =
              Len(Items) - Cardinality(Elements("next")) - Cardinality(Elements("next_back"))
        /\ \A i \in Elements("next") :
              LET k == Cardinality({j \in Elements("next") : j <= i}) IN
              /\ yielded[i].item = k
              /\ yielded[i].entry = Some([key |-> KeyText(Items[k]), value |-> Items[k].value])
        /\ \A i \in Elements("next_back") :
              LET k == Len(Items) + 1 - Cardinality({j \in Elements("next_back") : j <= i}) IN
              /\ yielded[i].item = k
              /\ yielded[i].entry = Some([key |-> KeyText(Items[k]), value |-> Items[k].value])
        /\ \A i \in 1..Len(yielded) : yielded[i].item = None <=> yielded[i].entry = Absent
        /\ \A i, j \in 1..Len(yielded) :
              (i # j /\ yielded[i].item # None) => yielded[i].item # yielded[j].item
        /\ \A i \in 1..Len(yielded) :
              yielded[i].item = None =>
                 /\ \A j \in i..Len(yielded) : yielded[j].item = None
                 /\ {yielded[j].item : j \in 1..(i - 1)} \ {None} = 1..Len(Items)
        /\ IterSizeHint(iter) = 0 =>
              /\ IterNext(iter).item = None
              /\ IterNextBack(iter).item = None
              /\ {yielded[j].item : j \in 1..Len(yielded)} \ {None} = 1..Len(Items)
        /\ last.op \in {"next", "next_back"} =>
              (last.item = None <=> SliceLen(last.before) = 0)

(* Both ends were consumed and the three entries are all out. *)
C8_Witness ==
    /\ OnlySingleSteps
    /\ Len(Items) = 3
    /\ Cardinality(Elements("next")) = 2
    /\ Cardinality(Elements("next_back")) = 1
    /\ yielded[Len(yielded)].item = None

(* C9: nth(n) returns the element and leaves the range that n + 1 calls of *)
(* next do, and nth_back(n) those that n + 1 calls of next_back do.        *)
C9_SkipAgreesWithSteps ==
    /\ last.op = "nth" =>
          [iter |-> iter, item |-> last.item] = NextTimes(last.before, last.n + 1)
    /\ last.op = "nth_back" =>
          [iter |-> iter, item |-> last.item] = NextBackTimes(last.before, last.n + 1)

----------------------------------------------------------------------------
(* The accessor types whose accessors return a value for a node. *)
PresentTypes(n) ==
    {type \in {"string", "bool", "number", "mapping", "sequence"} :
        CASE type = "string" -> as_bstr(n).some \/ as_str(n).some
          [] type = "bool" -> as_bool(n).some
          [] type = "number" -> as_u8(n).some \/ as_i8(n).some \/ as_u16(n).some \/ as_f64(n).some
          [] type = "mapping" -> as_mapping(n).some
          [] type = "sequence" -> as_sequence(n).some}

Classification ==
    /\ into_any(node) \in {"Scalar", "Mapping", "Sequence"}
    /\ into_any(node) = "Mapping" <=> as_mapping(node).some
    /\ as_mapping(node).some <=> node.tag = "Mapping"
    /\ into_any(node) = "Sequence" <=> as_sequence(node).some
    /\ as_sequence(node).some <=> node.tag = "Sequence"
    /\ answer.call = "into_any" => answer.result = into_any(node)
    /\ (answer.call # "into_any" /\ answer.result.some) =>
                \/ answer.call \in {"as_bstr", "as_str"} /\ node.tag = "String"
                \/ answer.call = "as_bool" /\ node.tag = "Boolean"
                \/ answer.call = "as_mapping" /\ node.tag = "Mapping"
                \/ answer.call = "as_sequence" /\ node.tag = "Sequence"
                \/ answer.call \in {"as_u8", "as_i8", "as_u16", "as_f64"} /\ node.tag = "Number"

(* C10, as claimed: into_any gives exactly one of scalar, mapping and      *)
(* sequence, mapping exactly for a table and sequence exactly for a list;  *)
(* and for every scalar node the accessors of exactly one type return a    *)
(* value.                                                                  *)
C10_ExactlyOneTypePerScalar ==
    /\ Classification
    /\ into_any(node) = "Scalar" => Cardinality(PresentTypes(node)) = 1

(* C10, amended: for a String, Boolean or Number node the accessors of     *)
(* exactly one type return a value, that of the node's kind; for a Null    *)
(* node, a scalar too, no accessor returns a value.                        *)
C10_TypeNarrowing ==
    /\ Classification
    /\ into_any(node) = "Scalar" <=> node.tag \in {"Null", "Boolean", "Number", "String"}
    /\ node.tag = "String" => PresentTypes(node) = {"string"}
    /\ node.tag = "Boolean" => PresentTypes(node) = {"bool"}
    /\ node.tag = "Number" => PresentTypes(node) = {"number"}
    /\ node.tag = "Null" => PresentTypes(node) = {}
    /\ node.tag = "Mapping" => PresentTypes(node) = {"mapping"}
    /\ node.tag = "Sequence" => PresentTypes(node) = {"sequence"}

(* The read of a null node as a boolean found nothing. *)
C10_Witness ==
    /\ node.tag = "Null"
    /\ answer.call = "as_bool"
    /\ ~answer.result.some

----------------------------------------------------------------------------
(* The decimal digits of a natural number, and a digit text without its    *)
(* leading zeros.                                                          *)
RECURSIVE Decimal(_)
Decimal(v) ==
    IF v < 10 THEN <<HexDigit(v)>> ELSE Decimal(v \div 10) \o <<HexDigit(v % 10)>>

RECURSIVE StripZeros(_)
StripZeros(digits) ==
    IF Len(digits) > 1 /\ digits[1] = "0" THEN StripZeros(Tail(digits)) ELSE digits

(* The text is the decimal literal of the integer v. *)
Denotes(text, v) ==
    LET negative == text # <<>> /\ text[1] = "-"
        digits == IF negative THEN Tail(text) ELSE text
    IN  /\ digits # <<>>
        /\ StripZeros(digits) = Decimal(IF v < 0 THEN 0 - v ELSE v)
        /\ negative => v <= 0
        /\ ~negative => v >= 0

InRange(result, n, lo, hi) ==
    result.some =>
        /\ n.tag = "Number"
        /\ lo <= result.value /\ result.value <= hi
        /\ Denotes(n.string, result.value)

NumericCalls == {"as_u8", "as_i8", "as_u16", "as_f64"}

NumericNarrowing ==
    /\ InRange(as_u8(node), node, 0, 255)
    /\ InRange(as_i8(node), node, -128, 127)
    /\ InRange(as_u16(node), node, 0, 65535)
    /\ as_f64(node).some => node.tag = "Number"
    /\ answer.call = "as_u8" => answer.result = as_u8(node) /\ InRange(answer.result, node, 0, 255)
    /\ answer.call = "as_i8" => answer.result = as_i8(node) /\ InRange(answer.result, node, -128, 127)
    /\ answer.call = "as_u16" =>
          answer.result = as_u16(node) /\ InRange(answer.result, node, 0, 65535)
    /\ (answer.call \in NumericCalls /\ node.tag # "Number") => ~answer.result.some
    /\ (node.tag = "Number" /\ node.string \in {<<"2", "5", "6">>, <<"-", "1">>}) =>
          ~as_u8(node).some
    /\ (node.tag = "Number" /\ node.string = <<"1", "2", "8">>) => ~as_i8(node).some

----------------------------------------------------------------------------
(* Quoted strings: rendering a logical string single- or double-quoted and *)
(* reading the rendered text back.                                         *)

HexValue(c) ==
    CASE c = "0" -> 0 [] c = "1" -> 1 [] c = "2" -> 2 [] c = "3" -> 3 [] c = "4" -> 4
      [] c = "5" -> 5 [] c = "6" -> 6 [] c = "7" -> 7 [] c = "8" -> 8 [] c = "9" -> 9
      [] c = "a" -> 10 [] c = "b" -> 11 [] c = "c" -> 12 [] c = "d" -> 13
      [] c = "e" -> 14 [] c = "f" -> 15 [] OTHER -> 16

(* The character of a code; a character outside the modelled ones is Other. *)
CodeChar(code) ==
    IF \E c \in AsciiControl : CharCode(c) = code
    THEN CHOOSE c \in AsciiControl : CharCode(c) = code
    ELSE "Other"

Prepend(chars, rest) == IF rest.some THEN Some(chars \o rest.value) ELSE Absent

(* The content of a single-quoted scalar: '' stands for one quote, a lone  *)
(* quote inside the text is malformed.                                     *)
RECURSIVE UnescapeSingleChars(_, _)
UnescapeSingleChars(text, i) ==
    IF i > Len(text) THEN Some(<<>>)
    ELSE IF text[i] = "'"
         THEN IF i < Len(text) /\ text[i + 1] = "'"
              THEN Prepend(<<"'">>, UnescapeSingleChars(text, i + 2))
              ELSE Absent
         ELSE Prepend(<<text[i]>>, UnescapeSingleChars(text, i + 1))

(* The character a short escape of a double-quoted scalar stands for. *)
ShortEscape(e) ==
    CASE e = "0" -> Some("NUL")
      [] e = "a" -> Some("BEL")
      [] e = "b" -> Some("BS")
      [] e = "t" -> Some("\t")
      [] e = "n" -> Some("\n")
      [] e = "v" -> Some("VT")
      [] e = "f" -> Some("\f")
      [] e = "r" -> Some("\r")
      [] e = "e" -> Some("ESC")
      [] e = "\"" -> Some("\"")
      [] e = "\\" -> Some("\\")
      [] OTHER -> Absent

(* The content of a double-quoted scalar: a backslash starts an escape, a  *)
(* bare double quote inside the text is malformed.                         *)
RECURSIVE UnescapeDoubleChars(_, _)
UnescapeDoubleChars(text, i) ==
    IF i > Len(text) THEN Some(<<>>)
    ELSE IF text[i] = "\"" THEN Absent
    ELSE IF text[i] # "\\" THEN Prepend(<<text[i]>>, UnescapeDoubleChars(text, i + 1))
    ELSE IF i = Len(text) THEN Absent
    ELSE IF text[i + 1] = "x"
         THEN IF i + 3 <= Len(text) /\ HexValue(text[i + 2]) < 16 /\ HexValue(text[i + 3]) < 16
              THEN Prepend(<<CodeChar(16 * HexValue(text[i + 2]) + HexValue(text[i + 3]))>>,
                           UnescapeDoubleChars(text, i + 4))
              ELSE Absent
         ELSE IF ShortEscape(text[i + 1]).some
              THEN Prepend(<<ShortEscape(text[i + 1]).value>>, UnescapeDoubleChars(text, i + 2))
              ELSE Absent

Quoted(text, quote) == Len(text) >= 2 /\ text[1] = quote /\ text[Len(text)] = quote

Inner(text) == SubSeq(text, 2, Len(text) - 1)

unescape_single_quoted(text) ==
    IF Quoted(text, "'") THEN UnescapeSingleChars(Inner(text), 1) ELSE Absent

unescape_double_quoted(text) ==
    IF Quoted(text, "\"") THEN UnescapeDoubleChars(Inner(text), 1) ELSE Absent

QuoteAlphabet == {"'", "\"", "\\", "\n", "\t", "NUL", "SOH", "DEL", "n", "a"}

QuoteTexts == UNION {[1..n -> QuoteAlphabet] : n \in 0..MaxLen}

InitQuote ==
    /\ node \in {[tag |-> "String", string |-> t] : t \in QuoteTexts}
    /\ answer = NoAnswer
    /\ strings = IterStrings
    /\ doc = IterTable(0)
    /\ last = NoOp
    /\ iter = NoIter
    /\ yielded = <<>>

DisplaySingleQuoted ==
    /\ answer = NoAnswer
    /\ Answered("escape_single_quoted", Some(escape_single_quoted(node.string)))

DisplayDoubleQuoted ==
    /\ answer = NoAnswer
    /\ Answered("escape_double_quoted", Some(escape_double_quoted(node.string)))

ScanSingleQuoted ==
    /\ answer.call = "escape_single_quoted"
    /\ Answered("unescape_single_quoted", unescape_single_quoted(answer.result.value))

ScanDoubleQuoted ==
    /\ answer.call = "escape_double_quoted"
    /\ Answered("unescape_double_quoted", unescape_double_quoted(answer.result.value))

NextQuote ==
    \/ DisplaySingleQuoted \/ DisplayDoubleQuoted \/ ScanSingleQuoted \/ ScanDoubleQuoted

SpecQuote == InitQuote /\ [][NextQuote]_vars

Scanned == answer.call \in {"unescape_single_quoted", "unescape_double_quoted"}

(* C12: for every logical string over the alphabet, rendering it single-   *)
(* quoted or double-quoted and reading the rendered text back by the same  *)
(* quoting rules gives the original content.                               *)
C12_QuotingRoundTrip == Scanned => answer.result = Some(node.string)

(* The round trip is exact in single quotes, and in double quotes for a    *)
(* string that holds no backslash.                                         *)
C12_RoundTripWithoutBackslash ==
    (Scanned /\ (answer.call = "unescape_single_quoted"
                    \/ \A i \in 1..Len(node.string) : node.string[i] # "\\"))
        => answer.result = Some(node.string)

(* A string with a quote, a newline or a control character was rendered    *)
(* and read back as itself.                                                *)
C12_Witness ==
    /\ Scanned
    /\ answer.result = Some(node.string)
    /\ \E i \in 1..Len(node.string) : node.string[i] \in {"'", "\"", "\n", "NUL", "SOH"}

----------------------------------------------------------------------------
(* The child node that holds the value of the last call: the pushed item's *)
(* value, or the value of the entry at the index the insert returned.      *)
Child == IF IsPush THEN Last(Post).value ELSE Post[last.ret + 1].value

ChildHasContainerIndent ==
    StringsGet(strings, Child.layout.indent) = StringsGet(strings, doc.layout.indent)

Replaced == IsInsert /\ Len(Post) = Len(Pre)

(* C13: after a list push and after a table insert, whether the key was    *)
(* appended or an existing entry replaced, the child node that holds the   *)
(* supplied value has the container's current indentation as its layout    *)
(* indentation.                                                            *)
C13_ChildIndent == (IsPush \/ IsInsert) => ChildHasContainerIndent

(* The same for the calls that add an entry: a push, or an insert of a key *)
(* the table did not find.                                                 *)
C13_ChildIndentOfNewEntry == (IsPush \/ (IsInsert /\ ~Replaced)) => ChildHasContainerIndent

(* An entry was appended to a table of two entries with a non-empty        *)
(* indentation, and its child carries that indentation.                    *)
C13_Witness ==
    /\ IsInsert /\ ~Replaced
    /\ Len(Pre) = 2
    /\ StringsGet(strings, doc.layout.indent) # <<>>
    /\ ChildHasContainerIndent

====
